---- MODULE Spec2Model ----
(***************************************************************************)
(* State-machine model of rgb_depth_sync::SynchronizationApplication       *)
(* (rgb_depth_sync_application.cc).  The application object is driven by   *)
(* three parties: the host (lifecycle calls and UI setters), the graphics  *)
(* thread (Render) and the SDK thread (the depth callback).  Every call    *)
(* into the vendor SDK is an input of the action that makes it: its status *)
(* and the values it writes are drawn with \E.                             *)
(***************************************************************************)
EXTENDS Integers, Sequences, FiniteSets, TLC

\* ---------------------------------------------------------------- bounds
\* Sensor timestamps handed out by the SDK are 1..MaxTime (0 is the value
\* Render gives its locals before the SDK writes them).
MaxTime == 2
\* Viewport widths and heights passed to SetViewPort are 1..MaxDim.
MaxDim == 1

Times == 1..MaxTime
Dims  == 1..MaxDim

\* ------------------------------------------------------- SDK vocabulary
nullptr       == "nullptr"
ConfigHandle  == "config"        \* what TangoService_getConfig returns
ManagerHandle == "manager"       \* what createPointCloudManager stores
FrontBuffer   == "front_buffer"  \* what the manager's poll stores

TANGO_SUCCESS == "TANGO_SUCCESS"
TANGO_ERROR   == "TANGO_ERROR"
TANGO_INVALID == "TANGO_INVALID"
ErrorTypes    == {TANGO_SUCCESS, TANGO_ERROR}

TANGO_POSE_VALID   == "TANGO_POSE_VALID"
TANGO_POSE_INVALID == "TANGO_POSE_INVALID"
PoseStatus == {TANGO_POSE_VALID, TANGO_POSE_INVALID}

START_OF_SERVICE == "TANGO_COORDINATE_FRAME_START_OF_SERVICE"
CAMERA_DEPTH     == "TANGO_COORDINATE_FRAME_CAMERA_DEPTH"
CAMERA_COLOR     == "TANGO_COORDINATE_FRAME_CAMERA_COLOR"

EnableDepth == "config_enable_depth"
EnableColor == "config_enable_color_camera"
EnableImu   == "config_enable_low_latency_imu_integration"
AllFlags    == {EnableDepth, EnableColor, EnableImu}

\* ----------------------------------------------------------------- state
VARIABLES
  tango_config_,          \* nullptr or ConfigHandle
  config_flags,           \* the keys successfully set to true on the config
  point_cloud_manager_,   \* nullptr or ManagerHandle
  manager,                \* the SDK-owned manager object
  render_buffer_,         \* nullptr or FrontBuffer
  gpu_upsample_,          \* BOOLEAN
  screen,                 \* <<screen_width_, screen_height_>>
  service,                \* the SDK's view: callback registered, connected
  life,                   \* "alive", "destroyed" or "crashed"
  frees,                  \* how often the destructor freed config and manager
  frame,                  \* the Render call in progress (its locals)
  delivered,              \* the cloud of the last completed depth callback
  last                    \* what the most recent operation did

vars == <<tango_config_, config_flags, point_cloud_manager_, manager,
          render_buffer_, gpu_upsample_, screen, service, life, frees, frame,
          delivered, last>>

\* The fields of the object (the renderers color_image_, depth_image_ and
\* main_scene_ are seen through the calls made on them, in `last`).
appFields == <<tango_config_, config_flags, point_cloud_manager_,
               render_buffer_, gpu_upsample_, screen>>

NoManager == [state |-> "none", shared |-> 0, updated |-> FALSE, front |-> 0]
IdleFrame == [pc |-> "idle", depth_timestamp |-> 0, new_points |-> FALSE,
              polled |-> 0, expected |-> 0]

\* One entry of `last`: the operation, its return value, the SDK calls it
\* made in order, those that failed, those whose failure it logged, the
\* calls it made on the renderers, and what it read.
Op(name, ret, calls, failed, logs, draws, info) ==
  [op |-> name, ret |-> ret, calls |-> calls, failed |-> failed,
   logs |-> logs, draws |-> draws, info |-> info]

NoInfo == [none |-> TRUE]

Init ==
  /\ tango_config_ = nullptr
  /\ config_flags = {}
  /\ point_cloud_manager_ = nullptr
  /\ manager = NoManager
  /\ render_buffer_ = nullptr
  /\ gpu_upsample_ = FALSE
  /\ screen = <<0, 0>>
  /\ service = [callback |-> FALSE, connected |-> FALSE]
  /\ life = "alive"
  /\ frees = [config |-> 0, manager |-> 0]
  /\ frame = IdleFrame
  /\ delivered = 0
  /\ last = Op("constructor", TRUE, <<>>, {}, {}, <<>>, NoInfo)

\* ------------------------------------------------------ TangoSetupConfig
\* The running state of one TangoSetupConfig call: the fields it has written
\* so far, whether it has returned, and its trace.
SetupStart(cfg, flags, mgr) ==
  [cfg |-> cfg, flags |-> flags, mgr |-> mgr, created |-> FALSE,
   done |-> FALSE, ret |-> TRUE, calls |-> <<>>, failed |-> {}, logs |-> {}]

Return(st, ret) == [st EXCEPT !.done = TRUE, !.ret = ret]

Called(st, call) == [st EXCEPT !.calls = Append(@, call)]

Failed(st, call, logged) ==
  [st EXCEPT !.failed = @ \cup {call},
             !.logs = IF logged THEN @ \cup {call} ELSE @]

SetBoolCall(key) == "TangoConfig_setBool:" \o key

\* SetDepthAlphaValue(0.0); SetGPUUpsample(false): the call made on
\* main_scene_ and the new value of the flag.
SetupPreamble_NoReset(gpu) ==
  [draws |-> <<"main_scene_.SetDepthAlphaValue">>, gpu |-> gpu]

SetupPreamble(gpu) ==
  [draws |-> <<"main_scene_.SetDepthAlphaValue">>, gpu |-> FALSE]

\* if (tango_config_ != nullptr) return true;
SetupEarlyReturn(st) ==
  IF st.cfg # nullptr THEN Return(st, TRUE) ELSE st

\* tango_config_ = TangoService_getConfig(...); null: return false, no log.
SetupGetConfig(st, got) ==
  IF st.done THEN st
  ELSE LET c == Called(st, "TangoService_getConfig") IN
       IF got = nullptr
       THEN Return(Failed([c EXCEPT !.cfg = nullptr],
                          "TangoService_getConfig", FALSE), FALSE)
       ELSE [c EXCEPT !.cfg = got, !.flags = {}]

\* err = TangoConfig_setBool(tango_config_, key, true); failure: LOGE and
\* return false.
SetupSetBool_NoReturn(st, key, err) ==
  IF st.done THEN st
  ELSE LET c == Called(st, SetBoolCall(key)) IN
       IF err # TANGO_SUCCESS
       THEN Failed(c, SetBoolCall(key), TRUE)
       ELSE [c EXCEPT !.flags = @ \cup {key}]

SetupSetBool(st, key, err) ==
  IF st.done THEN st
  ELSE LET c == Called(st, SetBoolCall(key)) IN
       IF err # TANGO_SUCCESS
       THEN Return(Failed(c, SetBoolCall(key), TRUE), FALSE)
       ELSE [c EXCEPT !.flags = @ \cup {key}]

\* if (point_cloud_manager_ == nullptr) { getInt32; createPointCloudManager }
SetupManager(st, errInt32, errCreate) ==
  IF st.done \/ st.mgr # nullptr THEN st
  ELSE LET c == Called(st, "TangoConfig_getInt32") IN
       IF errInt32 # TANGO_SUCCESS
       THEN Return(Failed(c, "TangoConfig_getInt32", TRUE), FALSE)
       ELSE LET d == Called(c, "TangoSupport_createPointCloudManager") IN
            IF errCreate # TANGO_SUCCESS
            THEN Return(Failed(d, "TangoSupport_createPointCloudManager",
                               FALSE), FALSE)
            ELSE [d EXCEPT !.mgr = ManagerHandle, !.created = TRUE]

\* The inputs of one call: what each SDK call it may make returns.
AllSetupInputs ==
  [getConfig : {nullptr, ConfigHandle}, depth : ErrorTypes,
   color : ErrorTypes, imu : ErrorTypes, getInt32 : ErrorTypes,
   create : ErrorTypes]

\* A call stops at the first failure, so the answers that follow a failure
\* are never asked for: one input per place of the first failure.
SetupCalls == <<"getConfig", "depth", "color", "imu", "getInt32", "create">>

SetupInputs ==
  {in \in AllSetupInputs :
     \A i \in 1..Len(SetupCalls), j \in 1..Len(SetupCalls) :
        (i < j /\ in[SetupCalls[i]] \in {nullptr, TANGO_ERROR})
           => in[SetupCalls[j]] = TANGO_ERROR}

SetupRun(cfg, flags, mgr, in) ==
  LET s0 == SetupEarlyReturn(SetupStart(cfg, flags, mgr))
      s1 == SetupGetConfig(s0, in.getConfig)
      s2 == SetupSetBool(s1, EnableDepth, in.depth)
      s3 == SetupSetBool(s2, EnableColor, in.color)
      s4 == SetupSetBool(s3, EnableImu, in.imu)
      s5 == SetupManager(s4, in.getInt32, in.create)
  IN  Return(s5, s5.ret)

LiveManager == [state |-> "live", shared |-> 0, updated |-> FALSE, front |-> 0]

TangoSetupConfig(in) ==
  /\ life = "alive"
  /\ LET pre == SetupPreamble(gpu_upsample_)
         run == SetupRun(tango_config_, config_flags, point_cloud_manager_, in)
     IN  /\ gpu_upsample_' = pre.gpu
         /\ tango_config_' = run.cfg
         /\ config_flags' = run.flags
         /\ point_cloud_manager_' = run.mgr
         /\ manager' = IF run.created THEN LiveManager ELSE manager
         /\ last' = Op("TangoSetupConfig", run.ret, run.calls, run.failed,
                       run.logs, pre.draws, [gpu_before |-> gpu_upsample_])
  /\ UNCHANGED <<render_buffer_, screen, service, life, frees, frame,
                 delivered>>

\* --------------------------------------------------- connect operations
\* TangoService_connectTextureId(...); return err == TANGO_SUCCESS;
TangoConnectTexture(err) ==
  /\ life = "alive"
  /\ last' = Op("TangoConnectTexture", err = TANGO_SUCCESS,
                <<"TangoService_connectTextureId">>,
                IF err = TANGO_SUCCESS THEN {}
                ELSE {"TangoService_connectTextureId"}, {}, <<>>, NoInfo)
  /\ UNCHANGED <<appFields, manager, service, life, frees, frame,
                 delivered>>

\* TangoService_connectOnXYZijAvailable(OnXYZijAvailableRouter)
TangoConnectCallbacks(err) ==
  /\ life = "alive"
  /\ service' = [service EXCEPT !.callback = @ \/ err = TANGO_SUCCESS]
  /\ last' = Op("TangoConnectCallbacks", err = TANGO_SUCCESS,
                <<"TangoService_connectOnXYZijAvailable">>,
                IF err = TANGO_SUCCESS THEN {}
                ELSE {"TangoService_connectOnXYZijAvailable"}, {}, <<>>,
                NoInfo)
  /\ UNCHANGED <<appFields, manager, life, frees, frame, delivered>>

\* What TangoService_connect(this, tango_config_) answers: the service
\* refuses a null configuration, and may fail with a valid one.
ServiceConnect(cfg, err) == IF cfg = nullptr THEN TANGO_INVALID ELSE err

TangoConnect(err) ==
  /\ life = "alive"
  /\ LET ret == ServiceConnect(tango_config_, err) IN
       /\ service' = [service EXCEPT !.connected = @ \/ ret = TANGO_SUCCESS]
       /\ last' = Op("TangoConnect", ret = TANGO_SUCCESS,
                     <<"TangoService_connect">>,
                     IF ret = TANGO_SUCCESS THEN {}
                     ELSE {"TangoService_connect"},
                     IF ret = TANGO_SUCCESS THEN {}
                     ELSE {"TangoService_connect"}, <<>>, NoInfo)
  /\ UNCHANGED <<appFields, manager, life, frees, frame, delivered>>

\* TangoService_getCameraIntrinsics; on failure LOGE and return false,
\* otherwise hand the intrinsics to depth_image_ and main_scene_.
TangoSetIntrinsicsAndExtrinsics(err) ==
  /\ life = "alive"
  /\ last' = IF err # TANGO_SUCCESS
             THEN Op("TangoSetIntrinsicsAndExtrinsics", FALSE,
                     <<"TangoService_getCameraIntrinsics">>,
                     {"TangoService_getCameraIntrinsics"},
                     {"TangoService_getCameraIntrinsics"}, <<>>, NoInfo)
             ELSE Op("TangoSetIntrinsicsAndExtrinsics", TRUE,
                     <<"TangoService_getCameraIntrinsics">>, {}, {},
                     <<"depth_image_.SetCameraIntrinsics",
                       "main_scene_.SetCameraIntrinsics">>, NoInfo)
  /\ UNCHANGED <<appFields, manager, service, life, frees, frame,
                 delivered>>

\* TangoService_disconnect(): the service stops calling back.
TangoDisconnect ==
  /\ life = "alive"
  /\ service' = [callback |-> FALSE, connected |-> FALSE]
  /\ last' = Op("TangoDisconnect", TRUE, <<"TangoService_disconnect">>, {},
                {}, <<>>, NoInfo)
  /\ UNCHANGED <<appFields, manager, life, frees, frame, delivered>>

\* TangoService_setBinder(env, binder); failure is logged.
OnTangoServiceConnected(err) ==
  /\ life = "alive"
  /\ last' = Op("OnTangoServiceConnected", TRUE,
                <<"TangoService_setBinder">>,
                IF err = TANGO_SUCCESS THEN {} ELSE {"TangoService_setBinder"},
                IF err = TANGO_SUCCESS THEN {} ELSE {"TangoService_setBinder"},
                <<>>, NoInfo)
  /\ UNCHANGED <<appFields, manager, service, life, frees, frame, delivered>>

\* ------------------------------------------------------------- setters
SetViewPort(width, height) ==
  /\ life = "alive"
  /\ frame.pc = "idle"          \* runs on the graphics thread, like Render
  /\ screen' = <<width, height>>
  /\ last' = Op("SetViewPort", TRUE, <<>>, {}, {},
                <<"main_scene_.SetupViewPort">>, NoInfo)
  /\ UNCHANGED <<tango_config_, config_flags, point_cloud_manager_, manager,
                 render_buffer_, gpu_upsample_, service, life, frees, frame,
                 delivered>>

SetDepthAlphaValue(alpha) ==
  /\ life = "alive"
  /\ last' = Op("SetDepthAlphaValue", TRUE, <<>>, {}, {},
                <<"main_scene_.SetDepthAlphaValue">>, [alpha |-> alpha])
  /\ UNCHANGED <<appFields, manager, service, life, frees, frame,
                 delivered>>

SetGPUUpsample(on) ==
  /\ life = "alive"
  /\ gpu_upsample_' = on
  /\ last' = Op("SetGPUUpsample", TRUE, <<>>, {}, {}, <<>>, [on |-> on])
  /\ UNCHANGED <<tango_config_, config_flags, point_cloud_manager_, manager,
                 render_buffer_, screen, service, life, frees, frame,
                 delivered>>

\* ------------------------------------------------- point-cloud manager
\* TangoSupport_updatePointCloud(manager, cloud): the writer's side of the
\* hand-off.  <<status, manager afterwards>>.
UpdatePointCloud(ptr, mgr, cloud) ==
  IF ptr = nullptr THEN <<TANGO_INVALID, mgr>>
  ELSE <<TANGO_SUCCESS, [mgr EXCEPT !.shared = cloud, !.updated = TRUE]>>

\* TangoSupport_getLatestPointCloudAndNewDataFlag(manager, &buf, &new): the
\* reader's side.  <<status, manager afterwards, buf, new>>; on failure the
\* outputs keep what the caller had put in them.
GetLatestPointCloudAndNewDataFlag(ptr, mgr, buf, new) ==
  IF ptr = nullptr THEN <<TANGO_INVALID, mgr, buf, new>>
  ELSE <<TANGO_SUCCESS,
         [mgr EXCEPT !.front = IF mgr.updated THEN mgr.shared ELSE @,
                     !.updated = FALSE],
         FrontBuffer, mgr.updated>>

\* ------------------------------------------------------ depth callback
\* The argument OnXYZijAvailable hands to TangoSupport_updatePointCloud.
CallbackCloud_Stale(xyz_ij, mgr) == mgr.shared

CallbackCloud(xyz_ij, mgr) == xyz_ij

\* OnXYZijAvailableRouter -> OnXYZijAvailable, on the SDK's thread, while the
\* service is connected with the callback registered.  The status of the
\* update is dropped.  A manager freed by a destructor that has not yet
\* cleared the pointer is written through a dangling pointer: the write is
\* lost or the process dies.
OnXYZijAvailable(xyz_ij, dies) ==
  /\ life \in {"alive", "destroying", "destroyed"}
  /\ service.callback /\ service.connected
  /\ LET dangling == point_cloud_manager_ # nullptr /\ manager.state = "freed"
         upd == UpdatePointCloud(point_cloud_manager_, manager,
                                 CallbackCloud(xyz_ij, manager))
     IN  /\ dangling \/ ~dies
         /\ manager' = IF dangling THEN manager ELSE upd[2]
         /\ life' = IF dangling /\ dies THEN "crashed" ELSE life
         /\ delivered' = xyz_ij
         /\ last' = Op("OnXYZijAvailable", TRUE,
                       <<"TangoSupport_updatePointCloud">>,
                       IF upd[1] = TANGO_SUCCESS THEN {}
                       ELSE {"TangoSupport_updatePointCloud"}, {}, <<>>,
                       [manager |-> IF point_cloud_manager_ = nullptr
                                    THEN "null" ELSE manager.state])
  /\ UNCHANGED <<appFields, service, frees, frame>>

\* ---------------------------------------------------------- destructor
\* if (tango_config_) TangoConfig_free(tango_config_);
\* TangoSupport_freePointCloudManager(point_cloud_manager_);
DestructorFree ==
  /\ life = "alive"
  /\ frame.pc = "idle"
  /\ life' = "destroying"
  /\ frees' = [config  |-> frees.config +
                           (IF tango_config_ # nullptr THEN 1 ELSE 0),
               manager |-> frees.manager +
                           (IF point_cloud_manager_ # nullptr THEN 1 ELSE 0)]
  /\ manager' = IF point_cloud_manager_ # nullptr
                THEN [manager EXCEPT !.state = "freed"] ELSE manager
  /\ last' = Op("~SynchronizationApplication", TRUE,
                (IF tango_config_ # nullptr THEN <<"TangoConfig_free">>
                 ELSE <<>>) \o <<"TangoSupport_freePointCloudManager">>,
                IF point_cloud_manager_ = nullptr
                THEN {"TangoSupport_freePointCloudManager"} ELSE {},
                {}, <<>>, NoInfo)
  /\ UNCHANGED <<appFields, service, frame, delivered>>

\* point_cloud_manager_ = nullptr;
DestructorClear ==
  /\ life = "destroying"
  /\ life' = "destroyed"
  /\ point_cloud_manager_' = nullptr
  /\ last' = Op("~SynchronizationApplication", TRUE, <<>>, {}, {}, <<>>,
                [cleared |-> TRUE])
  /\ UNCHANGED <<tango_config_, config_flags, manager, render_buffer_,
                 gpu_upsample_, screen, service, frees, frame, delivered>>

\* -------------------------------------------------------------- Render
\* TangoService_getPoseAtTime(timestamp, pair, &pose).  On success the pose
\* is written, with the status the service gives it.  On failure nothing is
\* written and the caller's local, which Render never initialises, holds an
\* indeterminate value: `status` is then whatever was in that memory.
GetPoseAtTime(timestamp, base, target, err, status) ==
  IF err = TANGO_SUCCESS
  THEN [written |-> TRUE, status_code |-> status, base |-> base,
        target |-> target, timestamp |-> timestamp]
  ELSE [written |-> FALSE, status_code |-> status, base |-> "indeterminate",
        target |-> "indeterminate", timestamp |-> -1]

\* TangoService_updateTexture(TANGO_CAMERA_COLOR, &color_timestamp): the
\* value of color_timestamp afterwards.
UpdateTexture(color_timestamp, err, written) ==
  IF err = TANGO_SUCCESS THEN written ELSE color_timestamp

\* util::GetMatrixFromPose(&pose): the transform of the pose, whatever its
\* status says.
GetMatrixFromPose(pose) ==
  [from |-> pose.target, to |-> pose.base, at |-> pose.timestamp]

\* glm::mat4 product, left factor first.
Mul(a, b) == <<a, b>>

\* color_image_t1_T_depth_image_t0 (lines 278-279)
ChainTransform(color_camera_t1_T_start_service, start_service_T_depth_camera_t0) ==
  Mul(color_camera_t1_T_start_service, start_service_T_depth_camera_t0)

\* The gate of lines 270-271.
PosesValid_ColorOnly(color_pose, depth_pose) ==
  color_pose.status_code = TANGO_POSE_VALID

PosesValid(color_pose, depth_pose) ==
  /\ color_pose.status_code = TANGO_POSE_VALID
  /\ depth_pose.status_code = TANGO_POSE_VALID

\* The calls of lines 281-290 on depth_image_ and main_scene_.
DrawCalls_AlwaysCpu(gpu, transform, cloud, new_points) ==
  << [fn |-> "depth_image_.UpdateAndUpsampleDepth",
      args |-> <<transform, cloud>>],
     [fn |-> "main_scene_.Render", args |-> <<>>] >>

DrawCalls(gpu, transform, cloud, new_points) ==
  << IF gpu
     THEN [fn |-> "depth_image_.RenderDepthToTexture",
           args |-> <<transform, cloud, new_points>>]
     ELSE [fn |-> "depth_image_.UpdateAndUpsampleDepth",
           args |-> <<transform, cloud>>],
     [fn |-> "main_scene_.Render", args |-> <<>>] >>

\* Lines 215-220: the poll of the manager and the read of the timestamp
\* through render_buffer_.  A null render_buffer_ ends the process.
RenderPoll ==
  /\ life = "alive"
  /\ frame.pc = "idle"
  /\ LET got == GetLatestPointCloudAndNewDataFlag(
                  point_cloud_manager_, manager, render_buffer_, FALSE)
         failed == IF got[1] = TANGO_SUCCESS THEN {}
                   ELSE {"TangoSupport_getLatestPointCloudAndNewDataFlag"}
     IN  /\ manager' = got[2]
         /\ render_buffer_' = got[3]
         /\ IF got[3] = nullptr
            THEN /\ life' = "crashed"
                 /\ frame' = frame
                 /\ last' = Op("Render", FALSE,
                       <<"TangoSupport_getLatestPointCloudAndNewDataFlag">>,
                       failed, {}, <<>>,
                       [stage |-> "null render_buffer_",
                        manager |-> IF point_cloud_manager_ = nullptr
                                    THEN "null" ELSE manager.state])
            ELSE /\ life' = life
                 /\ frame' = [pc |-> "polled",
                              depth_timestamp |-> got[2].front,
                              new_points |-> got[4],
                              polled |-> got[2].front,
                              expected |-> delivered]
                 /\ last' = Op("Render", TRUE,
                       <<"TangoSupport_getLatestPointCloudAndNewDataFlag">>,
                       failed, {}, <<>>,
                       [stage |-> "polled",
                        manager |-> IF point_cloud_manager_ = nullptr
                                    THEN "null" ELSE manager.state])
  /\ UNCHANGED <<tango_config_, config_flags, point_cloud_manager_,
                 gpu_upsample_, screen, service, frees, delivered>>

\* What the SDK answers to one Render: the status of each call and what it
\* writes.  A failed updateTexture writes no timestamp.
RenderInputs ==
  {in \in [tex : ErrorTypes, color_timestamp : Times \cup {0},
           depth : ErrorTypes, depth_status : PoseStatus,
           color : ErrorTypes, color_status : PoseStatus] :
     (in.tex = TANGO_SUCCESS) = (in.color_timestamp # 0)}

\* Lines 223-297.
RenderDraw(in) ==
  /\ life = "alive"
  /\ frame.pc = "polled"
  /\ LET color_timestamp == UpdateTexture(0, in.tex, in.color_timestamp)
         depth_pose == GetPoseAtTime(frame.depth_timestamp, START_OF_SERVICE,
                                     CAMERA_DEPTH, in.depth, in.depth_status)
         color_pose == GetPoseAtTime(color_timestamp, CAMERA_COLOR,
                                     START_OF_SERVICE, in.color,
                                     in.color_status)
         start_service_T_depth_camera_t0 == GetMatrixFromPose(depth_pose)
         color_camera_t1_T_start_service == GetMatrixFromPose(color_pose)
         cloud == [buffer |-> render_buffer_, timestamp |-> manager.front]
         failed ==
           (IF in.tex # TANGO_SUCCESS
            THEN {"TangoService_updateTexture"} ELSE {}) \cup
           (IF in.depth # TANGO_SUCCESS
            THEN {"TangoService_getPoseAtTime:depth"} ELSE {}) \cup
           (IF in.color # TANGO_SUCCESS
            THEN {"TangoService_getPoseAtTime:color"} ELSE {})
         invalid ==
           IF color_pose.status_code # TANGO_POSE_VALID
           THEN {"Invalid pose for ss_t_color"}
           ELSE IF depth_pose.status_code # TANGO_POSE_VALID
                THEN {"Invalid pose for ss_t_depth"} ELSE {}
         draws ==
           IF PosesValid(color_pose, depth_pose)
           THEN DrawCalls(gpu_upsample_,
                          ChainTransform(color_camera_t1_T_start_service,
                                         start_service_T_depth_camera_t0),
                          cloud, frame.new_points)
           ELSE <<>>
     IN  last' = Op("Render", TRUE,
                    <<"TangoService_updateTexture",
                      "TangoService_getPoseAtTime:depth",
                      "TangoService_getPoseAtTime:color">>,
                    failed, failed \cup invalid, draws,
                    [stage |-> "done", tex |-> in.tex,
                     color_timestamp |-> color_timestamp,
                     depth_timestamp |-> frame.depth_timestamp,
                     depth |-> in.depth, color |-> in.color,
                     depth_pose |-> depth_pose, color_pose |-> color_pose,
                     cloud |-> cloud, polled |-> frame.polled,
                     new_points |-> frame.new_points])
  /\ frame' = IdleFrame
  /\ UNCHANGED <<appFields, manager, service, life, frees, delivered>>

\* ------------------------------------------------------- specification
Next ==
  \/ \E in \in SetupInputs : TangoSetupConfig(in)
  \/ \E err \in ErrorTypes : TangoConnectTexture(err)
  \/ \E err \in ErrorTypes : TangoConnectCallbacks(err)
  \/ \E err \in ErrorTypes : TangoConnect(err)
  \/ \E err \in ErrorTypes : TangoSetIntrinsicsAndExtrinsics(err)
  \/ TangoDisconnect
  \/ \E err \in ErrorTypes : OnTangoServiceConnected(err)
  \/ \E w \in Dims, h \in Dims : SetViewPort(w, h)
  \/ \E alpha \in {0, 1} : SetDepthAlphaValue(alpha)
  \/ \E on \in BOOLEAN : SetGPUUpsample(on)
  \/ \E t \in Times, dies \in BOOLEAN : OnXYZijAvailable(t, dies)
  \/ RenderPoll
  \/ \E in \in RenderInputs : RenderDraw(in)
  \/ DestructorFree
  \/ DestructorClear

Spec == Init /\ [][Next]_vars

\* ================================================================ claims
RenderDone == last.op = "Render" /\ last.info.stage = "done"

Upsamplers == {"depth_image_.RenderDepthToTexture",
               "depth_image_.UpdateAndUpsampleDepth"}

Upsampled(draws) == \E i \in 1..Len(draws) : draws[i].fn \in Upsamplers

SceneRendered(draws) ==
  \E i \in 1..Len(draws) : draws[i].fn = "main_scene_.Render"

BothPosesValid(info) ==
  /\ info.color_pose.status_code = TANGO_POSE_VALID
  /\ info.depth_pose.status_code = TANGO_POSE_VALID

\* C1: a Render call runs the depth upsampling step and main_scene_.Render
\* if and only if the status_code of both poses it obtained is
\* TANGO_POSE_VALID; otherwise it draws nothing and logs the invalid pose.
C1_DrawIffBothPosesValid ==
  RenderDone =>
    /\ Upsampled(last.draws) <=> BothPosesValid(last.info)
    /\ SceneRendered(last.draws) <=> BothPosesValid(last.info)
    /\ ~BothPosesValid(last.info) =>
         /\ last.draws = <<>>
         /\ \/ "Invalid pose for ss_t_color" \in last.logs
            \/ "Invalid pose for ss_t_depth" \in last.logs

C1_Witness ==
  /\ RenderDone
  /\ last.info.color_pose.status_code = TANGO_POSE_VALID
  /\ last.info.depth_pose.status_code = TANGO_POSE_INVALID
  /\ last.draws = <<>>
  /\ "Invalid pose for ss_t_depth" \in last.logs

SetupOps == {"TangoSetupConfig", "TangoConnect", "TangoConnectCallbacks",
             "TangoConnectTexture", "TangoSetIntrinsicsAndExtrinsics"}

\* C2: a setup operation whose SDK call fails returns false and makes no
\* further step: the failed call is the last call it made, and
\* TangoSetIntrinsicsAndExtrinsics hands no intrinsics to the renderers.
C2_SetupFailureAborts ==
  (last.op \in SetupOps /\ last.failed # {}) =>
    /\ last.ret = FALSE
    /\ Cardinality(last.failed) = 1
    /\ last.calls[Len(last.calls)] \in last.failed
    /\ last.op = "TangoSetIntrinsicsAndExtrinsics" => last.draws = <<>>
    /\ last.op = "TangoSetupConfig" =>
         /\ point_cloud_manager_ = nullptr
         /\ config_flags =
              {k \in AllFlags :
                 \E i \in 1..Len(last.calls) :
                    last.calls[i] = SetBoolCall(k) /\ i < Len(last.calls)}

C2_Witness ==
  /\ last.op = "TangoSetupConfig"
  /\ last.failed = {SetBoolCall(EnableColor)}
  /\ last.ret = FALSE
  /\ config_flags = {EnableDepth}

\* C3: every SDK call that fails has an error logged for it.
C3_EveryFailureLogged == last.failed \subseteq last.logs

\* C4: a Render call in which TangoService_updateTexture or one of the two
\* TangoService_getPoseAtTime calls fails draws nothing.
C4_FailedCallSkipsFrame ==
  (RenderDone /\ last.failed # {}) => last.draws = <<>>

\* C5: the depth callback writes the point-cloud manager and no field of the
\* application, nothing else changes the cloud the manager holds, and a poll
\* in Render leaves render_buffer_ on the cloud of the most recent callback.
C5_Step ==
  /\ last'.op = "OnXYZijAvailable" =>
       UNCHANGED <<tango_config_, config_flags, point_cloud_manager_,
                   render_buffer_, gpu_upsample_, screen>>
  /\ manager'.shared # manager.shared => last'.op = "OnXYZijAvailable"
  /\ (frame.pc = "idle" /\ frame'.pc = "polled") =>
       /\ render_buffer_' = FrontBuffer
       /\ delivered # 0 =>
            /\ frame'.polled = delivered
            /\ frame'.depth_timestamp = delivered

C6_TransformChain ==
  (RenderDone /\ last.draws # <<>>) =>
    /\ last.info.tex = TANGO_SUCCESS
    /\ last.info.color_timestamp \in Times
    /\ last.draws[1].args[1] =
         Mul([from |-> START_OF_SERVICE, to |-> CAMERA_COLOR,
              at |-> last.info.color_timestamp],
             [from |-> CAMERA_DEPTH, to |-> START_OF_SERVICE,
              at |-> last.info.polled])

\* C7: gpu_upsample_ changes only in SetGPUUpsample(on), to on, and in
\* TangoSetupConfig, which leaves it false on every call; Render also leaves
\* the config handle and the screen dimensions unchanged.
C7_Step ==
  /\ gpu_upsample_' # gpu_upsample_ =>
       last'.op \in {"SetGPUUpsample", "TangoSetupConfig"}
  /\ last'.op = "SetGPUUpsample" => gpu_upsample_' = last'.info.on
  /\ last'.op = "TangoSetupConfig" => gpu_upsample_' = FALSE
  /\ last'.op = "Render" =>
       UNCHANGED <<gpu_upsample_, tango_config_, config_flags, screen>>

C7_FlagWriters == [][C7_Step]_vars

C7_Witness ==
  /\ last.op = "TangoSetupConfig"
  /\ last.calls = <<>>
  /\ last.info.gpu_before = TRUE
  /\ gpu_upsample_ = FALSE

\* C8: when TangoSetupConfig returns true the config exists, the three
\* flags are set on it and the point-cloud manager exists.
C8_TrueMeansConfigured ==
  (last.op = "TangoSetupConfig" /\ last.ret = TRUE) =>
    /\ tango_config_ # nullptr
    /\ config_flags = AllFlags
    /\ point_cloud_manager_ # nullptr

\* C9: the manager is live whenever the callback updates it or Render polls
\* it, and the destructor frees the config at most once and the manager
\* exactly once.
C9_ManagerLiveWhenUsed ==
  /\ last.op = "OnXYZijAvailable" => last.info.manager = "live"
  /\ (last.op = "Render" /\ last.info.stage # "done") =>
       last.info.manager = "live"
  /\ frees.config <= 1
  /\ life = "destroyed" => frees.manager = 1

\* C10: a Render call that passes the gate runs exactly one upsampling
\* path, the one gpu_upsample_ selects at that moment, with the transform,
\* the polled cloud (and the new-data flag on the GPU path), and then
\* main_scene_.Render, once.
C10_Step ==
  (frame.pc = "polled" /\ last'.op = "Render" /\ last'.info.stage = "done"
     /\ BothPosesValid(last'.info)) =>
    /\ Len(last'.draws) = 2
    /\ last'.draws[2] = [fn |-> "main_scene_.Render", args |-> <<>>]
    /\ last'.draws[1].fn = IF gpu_upsample_
                           THEN "depth_image_.RenderDepthToTexture"
                           ELSE "depth_image_.UpdateAndUpsampleDepth"
    /\ last'.draws[1].args[1] =
         << [from |-> last'.info.color_pose.target,
             to |-> last'.info.color_pose.base,
             at |-> last'.info.color_pose.timestamp],
            [from |-> last'.info.depth_pose.target,
             to |-> last'.info.depth_pose.base,
             at |-> last'.info.depth_pose.timestamp] >>
    /\ last'.draws[1].args[2] =
         [buffer |-> FrontBuffer, timestamp |-> frame.polled]
    /\ Len(last'.draws[1].args) = IF gpu_upsample_ THEN 3 ELSE 2
    /\ gpu_upsample_ => last'.draws[1].args[3] = frame.new_points

C10_OneUpsamplingPath == [][C10_Step]_vars

C10_Witness ==
  /\ RenderDone
  /\ gpu_upsample_
  /\ Len(last.draws) = 2
  /\ last.draws[1].fn = "depth_image_.RenderDepthToTexture"
  /\ last.draws[1].args[3] = TRUE
  /\ last.draws[2].fn = "main_scene_.Render"

====
